---- MODULE Spec2Model ----
(***************************************************************************)
(* Model of the record core of the registration backend:                   *)
(*   src/registration/models.py    User, HackerUser, sanitize_None/_Blank  *)
(*   src/registration/utilities.py StatusCodes, mlh_settable_keys,         *)
(*                                 get_by_code                             *)
(* forms.py and settings.py are imported by models.py but are not part of  *)
(* the sources; what the model needs of them (validate, ignore_types, the  *)
(* form passed to fill_form/update, DEFAULT_REGISTRATION_STATUS) is        *)
(* modelled from the specification and marked so below.                    *)
(***************************************************************************)
EXTENDS Integers, Sequences, FiniteSets, TLC

(***************************************************************************)
(* Python values.  Every value carries its type so that None, the string   *)
(* "None" and the empty string stay three different values.                *)
(***************************************************************************)
\* A string is the sequence of its characters: Str(<<"m", "l">>) is "ml".
None == [ty |-> "None"]
Str(s) == [ty |-> "str", v |-> s]
Bool(b) == [ty |-> "bool", v |-> b]
Time(n) == [ty |-> "datetime", v |-> n]
Num(n) == [ty |-> "int", v |-> n]
Exc(name) == [ty |-> "exception", v |-> name]
IsExc(x) == x.ty = "exception"

(***************************************************************************)
(* Bounds of the model.                                                    *)
(***************************************************************************)
\* utcnow() is read at most MaxClock times by update in one behaviour
MaxClock == 2
\* at most MaxHooks callbacks are registered in each callback list
MaxHooks == 2
\* a payload (update_dict) has at most MaxPayload entries
MaxPayload == 2

(***************************************************************************)
(* utilities.py: the status table.  Only the fields the core reads are     *)
(* kept (code, friendly_name, editable_state); help_text is display text.  *)
(***************************************************************************)
StatusCodes ==
  [c \in {Str(<<k>>) : k \in {"o", "p", "a", "r", "w", "t", "n", "u"}} |->
     CASE c.v = <<"o">> -> [code |-> "o", friendly_name |-> "Open", editable_state |-> TRUE]
       [] c.v = <<"p">> -> [code |-> "p", friendly_name |-> "Pending", editable_state |-> FALSE]
       [] c.v = <<"a">> -> [code |-> "a", friendly_name |-> "Accepted", editable_state |-> FALSE]
       [] c.v = <<"r">> -> [code |-> "r", friendly_name |-> "Not Accepted", editable_state |-> FALSE]
       [] c.v = <<"w">> -> [code |-> "w", friendly_name |-> "Waitlisted", editable_state |-> FALSE]
       [] c.v = <<"t">> -> [code |-> "t", friendly_name |-> "Accepted with Travel", editable_state |-> FALSE]
       [] c.v = <<"n">> -> [code |-> "n", friendly_name |-> "Accepted without Travel", editable_state |-> FALSE]
       [] c.v = <<"u">> -> [code |-> "x", friendly_name |-> "Unknown", editable_state |-> TRUE]]

\* def get_by_code(code): the entry of the code, the 'u' entry for any other code
get_by_code(code) ==
  IF code \in DOMAIN StatusCodes THEN StatusCodes[code] ELSE StatusCodes[Str(<<"u">>)]

\* the number of positional parameters of def get_by_code(code)
get_by_code_params == 1

\* A Python call binds its arguments to the parameters of the function and
\* raises TypeError when their numbers differ.
call_get_by_code(args) ==
  IF Len(args) = get_by_code_params THEN get_by_code(args[1]) ELSE Exc("TypeError")

\* The list of keys MLH is allowed to set
mlh_settable_keys ==
  {"mlh_id", "created_at", "date_of_birth", "email", "first_name", "last_name",
   "gender", "graduation", "major", "phone_number", "school_id", "school_name",
   "shirt_size", "special_needs", "dietary_restrictions", "updated_at"}

(***************************************************************************)
(* models.py: the model helpers.                                           *)
(***************************************************************************)
\* "" if value in [None, "None", "none", "na", "n/a"] else value
sanitize_None(value) ==
  IF value \in {None, Str(<<"N", "o", "n", "e">>), Str(<<"n", "o", "n", "e">>),
                Str(<<"n", "a">>), Str(<<"n", "/", "a">>)}
  THEN Str(<<>>) ELSE value

\* None if value in ['', ' '] else value
sanitize_Blank(value) ==
  IF value \in {Str(<<>>), Str(<<" ">>)} THEN None ELSE value

\* flask.escape (markupsafe): & < > ' " become HTML entities, character by
\* character; every other character is kept.
escape_char(c) ==
  CASE c = "&" -> <<"&", "a", "m", "p", ";">>
    [] c = "<" -> <<"&", "l", "t", ";">>
    [] c = ">" -> <<"&", "g", "t", ";">>
    [] c = "'" -> <<"&", "#", "3", "9", ";">>
    [] c = "\"" -> <<"&", "#", "3", "4", ";">>
    [] OTHER -> <<c>>

RECURSIVE escape_chars(_)
escape_chars(s) ==
  IF s = <<>> THEN <<>> ELSE escape_char(Head(s)) \o escape_chars(Tail(s))

escape(value) == Str(escape_chars(value.v))

(***************************************************************************)
(* The record.  Columns are the attributes the store persists (db.Column   *)
(* of User and HackerUser); an object may carry further plain attributes   *)
(* set with setattr, which no commit writes.                               *)
(***************************************************************************)
Columns ==
  {"email", "name", "shirt_size", "is_admin", "user_id", "user_created_at",
   "user_last_updated_at", "discriminator",
   "github_id", "created_at", "special_needs", "updated_at", "dietary_restrictions",
   "what_to_learn", "resume_location", "background", "github", "website",
   "travel_cost", "attends_conference", "attends_hackathon",
   "preferred_travel_method", "needs_reimbursement",
   "visible_status", "pending_status", "can_edit", "notes", "checked_in", "rsvp",
   "rsvp_by", "apply_date", "rsvp_date"}

\* the reads of datetime.datetime.utcnow() one construction makes: one in
\* User.__init__, one in HackerUser.__init__
constructor_reads == 2

\* settings.DEFAULT_REGISTRATION_STATUS
DEFAULT_REGISTRATION_STATUS == Str(<<"o">>)

\* HackerUser.__init__(email) over User.__init__(email), the clock showing
\* clock at the first read of utcnow() and one more at each later read; the
\* mapper sets the discriminator of the class; a column the constructor leaves
\* alone is NULL, user_id until the store assigns it.
HackerUser(email, clock) ==
  [c \in Columns |->
     CASE c = "email" -> email
       [] c = "user_created_at" -> Time(clock)
       [] c = "discriminator" ->
            Str(<<"h", "a", "c", "k", "e", "r", "_", "u", "s", "e", "r">>)
       [] c = "apply_date" -> Time(clock + 1)
       [] c = "is_admin" -> Bool(FALSE)
       [] c = "can_edit" -> Bool(TRUE)
       [] c = "visible_status" -> DEFAULT_REGISTRATION_STATUS
       [] c = "pending_status" -> Str(<<"x">>)
       [] OTHER -> None]

\* setattr(obj, key, value)
setattr(obj, key, value) ==
  [a \in DOMAIN obj \cup {key} |-> IF a = key THEN value ELSE obj[a]]

\* the part of an object a commit writes
row_of(obj) == [c \in Columns |-> obj[c]]

\* HackerUser.friendly_status:
\*   utilities.get_by_code(self.visible_status, forms.StatusCodes)
friendly_status(user) ==
  call_get_by_code(<<user["visible_status"], StatusCodes>>)

\* HackerUser.is_editable: self.friendly_status['editable_state']
is_editable(user) ==
  LET fs == friendly_status(user)
  IN IF "ty" \in DOMAIN fs THEN fs ELSE Bool(fs.editable_state)

(***************************************************************************)
(* forms.py, from the specification (sections 3, 4.2 and 4.3): a form is   *)
(* an ordered mapping of field_id to its descriptor.                       *)
(***************************************************************************)
\* form types that carry no value (forms.ignore_types)
ignore_types == {"break"}

\* the validation pattern ^.+$
DotPlus == Str(<<"^", ".", "+", "$">>)

\* re.match for the patterns the forms use.  ^.+$ : at least one character,
\* none of them a newline ($ also matches before one trailing newline).
re_match(pattern, value) ==
  LET s == value.v
      n == Len(s)
      core == IF n > 0 /\ s[n] = "\n" THEN SubSeq(s, 1, n - 1) ELSE s
  IN pattern = DotPlus /\ Len(core) >= 1 /\ \A i \in 1..Len(core) : core[i] # "\n"

field(formtype, pattern, always, editable) ==
  [formtype |-> formtype, pattern |-> pattern, always |-> always,
   editable |-> editable, value |-> None]

\* The self-service form: a section break, then the fields.  what_to_learn
\* and background are described as in utilities.hacker_get_set_dict; email is
\* the field that stays editable whatever the status.
hacker_form_fields ==
  [k \in {"email", "what_to_learn", "background", "section"} |->
     CASE k = "email" -> field("text", None, TRUE, TRUE)
       [] k = "what_to_learn" -> field("textarea", None, FALSE, TRUE)
       [] k = "background" -> field("textarea", DotPlus, FALSE, TRUE)
       [] k = "section" -> field("break", None, FALSE, TRUE)]

hacker_form_0 ==
  [order |-> <<"section", "what_to_learn", "background", "email">>, d |-> hacker_form_fields]

\* Section 3: (can_edit AND editable_state of the status) OR always_editable,
\* AND the form type is not an ignore type.
effective_editable(user, fld) ==
  /\ \/ (user["can_edit"] = Bool(TRUE) /\ get_by_code(user["visible_status"]).editable_state)
     \/ fld.always
  /\ fld.formtype \notin ignore_types

\* Section 4.3 step 5: an empty or whitespace-only string becomes null.
normalize(value) ==
  IF value.ty = "str" /\ \A i \in 1..Len(value.v) : value.v[i] \in {" ", "\t", "\n"}
  THEN None ELSE value

\* Section 4.3, per entry of the payload in its order; acc is the result map.
RECURSIVE validate_from(_, _, _, _, _)
validate_from(user, update_dict, form, i, acc) ==
  IF i > Len(update_dict)
  THEN [action |-> "update", status |-> "success", reason |-> "", values |-> acc]
  ELSE LET key == update_dict[i].key
           value == update_dict[i].value
       IN IF key \notin DOMAIN form.d
          THEN validate_from(user, update_dict, form, i + 1, acc)
          ELSE LET fld == form.d[key]
               IN IF fld.formtype \in ignore_types
                  THEN validate_from(user, update_dict, form, i + 1, acc)
                  ELSE IF ~effective_editable(user, fld)
                  THEN [action |-> "update", status |-> "fail",
                        reason |-> "field not editable: " \o key, values |-> acc]
                  ELSE IF fld.pattern # None /\ ~re_match(fld.pattern, value)
                  THEN [action |-> "update", status |-> "fail",
                        reason |-> "invalid field: " \o key, values |-> acc]
                  ELSE validate_from(user, update_dict, form, i + 1,
                                     setattr(acc, key, normalize(value)))

\* forms.validate(user, update_dict, updatable_dictionary)
validate(user, update_dict, form) ==
  validate_from(user, update_dict, form, 1, <<>>)

(***************************************************************************)
(* Inputs.                                                                 *)
(***************************************************************************)
Emails == {Str(<<"a">>), Str(<<"b">>)}
Logins == {Str(<<"g">>), Str(<<"h">>)}
UserIds == 1..Cardinality(Emails)

\* a dict in insertion order: at most MaxPayload entries, each key with one
\* of its values, the keys inserted in the order of the sequence keys
Dicts(keys, vals) ==
  LET entries == UNION {{[key |-> keys[n], value |-> v, n |-> n] : v \in vals[keys[n]]} :
                          n \in DOMAIN keys}
      ordered == {d \in UNION {[1..n -> entries] : n \in 0..MaxPayload} :
                    \A i, j \in DOMAIN d : i < j => d[i].n < d[j].n}
  IN {[i \in DOMAIN d |-> [key |-> d[i].key, value |-> d[i].value]] : d \in ordered}

\* what a self-service caller may submit for a key; visible_status is a
\* column of the record that is no field of the form
UpdateValues ==
  [key \in {"what_to_learn", "background", "email", "visible_status"} |->
     CASE key = "email" -> {Str(<<"b">>)}
       [] key = "what_to_learn" -> {Str(<<>>), Str(<<" ", " ">>)}
       [] key = "background" -> {Str(<<>>)}
       [] key = "visible_status" -> {Str(<<"o">>)}]

UpdateDicts == Dicts(<<"what_to_learn", "background", "email", "visible_status">>, UpdateValues)

\* one answer to the first question of the form: blank, or text with markup
ShownDicts ==
  {<<[key |-> "what_to_learn", value |-> v]>> : v \in {Str(<<>>), Str(<<"<", "3">>)}}

\* the record whose owner submits updates
Applicants == {1}

\* what an administrator may submit for a key; z is a code outside StatusCodes
AdminValues ==
  [key \in {"visible_status", "can_edit", "github_id", "notes"} |->
     CASE key = "visible_status" -> {Str(<<"a">>), Str(<<"z">>)}
       [] key = "can_edit" -> {Bool(FALSE)}
       [] key = "github_id" -> {Str(<<"g">>)}
       [] key = "notes" -> {Str(<<"f", "l", "a", "g", "g", "e", "d">>)}]

AdminDicts == Dicts(<<"visible_status", "can_edit", "github_id", "notes">>, AdminValues)

\* the administrator's one-key corrections of status and can_edit
StatusDicts == {d \in AdminDicts : Len(d) = 1 /\ d[1].key \in {"visible_status", "can_edit"}}

\* the two corrections that lock a record
LockDicts == {d \in StatusDicts : d[1].value # Str(<<"z">>)}

\* the administrator's one-key payloads with a status code of the table
OneKeyDicts == {d \in AdminDicts : Len(d) = 1 /\ d[1].value # Str(<<"z">>)}

\* the administrator's assignment of a github_id
GithubDicts == {d \in AdminDicts : Len(d) = 1 /\ d[1].key = "github_id"}

\* the paths set_resume_location is given
ResumeLocations == {Str(<<"/", "r">>)}

\* what the partner sends: email and login, and possibly first_name (a
\* settable key that is no column), shirt_size (a settable key that is a
\* column) and is_admin (not a settable key)
UserDicts ==
  {[k \in {"email", "login"} \cup opt |->
      CASE k = "email" -> e
        [] k = "login" -> l
        [] k = "first_name" -> Str(<<"A", "n", "n">>)
        [] k = "shirt_size" -> Str(<<"M">>)
        [] k = "is_admin" -> Bool(TRUE)] :
     e \in Emails, l \in Logins, opt \in SUBSET {"first_name", "shirt_size", "is_admin"}}

\* the identities sent bare or with all three further keys
SentDicts ==
  {d \in UserDicts : DOMAIN d = {"email", "login"} \/ Cardinality(DOMAIN d) = 5}

\* the requests that may be resolving an identity at one time
Resolvers == {1, 2}

\* the resolver that signs the applicants in, one after the other
SignIns == {1}

\* the partner's plain identities, one per email
PlainUserDicts ==
  {d \in UserDicts : DOMAIN d = {"email", "login"}
                     /\ (d["email"] = Str(<<"a">>) <=> d["login"] = Str(<<"g">>))}

(***************************************************************************)
(* State.                                                                  *)
(***************************************************************************)
VARIABLES
  db,                \* the committed rows of hacker_user, by user_id
  hacker_form,       \* forms.hacker_form, the one dict every caller passes
  create_callbacks,  \* User.create_callbacks
  update_callbacks,  \* User.update_callbacks
  now,               \* the clock datetime.utcnow() reads; a read advances it
  reads,             \* the reads of the clock user_updated has made
  req,               \* by user_id, the update of that record that is under way
  res,               \* by resolver, its update_or_create that is under way
  last               \* the last step of a call: its arguments, and what the
                     \* call returned or raised if the step ended it

vars == <<db, hacker_form, create_callbacks, update_callbacks, now, reads, req, res, last>>

\* no call is under way
idle == [pc |-> "idle"]

\* ret and raised are None while the call is under way; hooks: the callbacks
\* called; assigned: the keys the call set on its record with setattr, in order
Call(op, uid, arg, ret, raised, hooks, assigned) ==
  [op |-> op, uid |-> uid, arg |-> arg, ret |-> ret, raised |-> raised, hooks |-> hooks,
   assigned |-> assigned]

Init ==
  /\ db = <<>>
  /\ hacker_form = hacker_form_0
  /\ create_callbacks = <<>>
  /\ update_callbacks = <<>>
  /\ now = 0
  /\ reads = 0
  /\ req = [u \in UserIds |-> idle]
  /\ res = [t \in Resolvers |-> idle]
  /\ last = Call("init", 0, None, None, None, <<>>, <<>>)

\* unique=True on email and github_id: no two rows share a non-NULL value
unique(rows) ==
  \A u1, u2 \in DOMAIN rows : \A c \in {"email", "github_id"} :
    (u1 # u2 /\ rows[u1][c] # None) => rows[u1][c] # rows[u2][c]

\* for fn in callbacks: fn(self), where the k-th callback raises (k = 0: none
\* does): the callbacks called, and the error that leaves the loop
run_callbacks(callbacks, k) ==
  [called |-> IF k = 0 THEN callbacks ELSE SubSeq(callbacks, 1, k),
   raised |-> IF k = 0 THEN None ELSE Exc("HookError")]

\* the keys of a dict, in its order
keys_of(d) == [i \in DOMAIN d |-> d[i].key]


(***************************************************************************)
(* User.fill_form(form).  data_dict = form is the caller's dict itself, so *)
(* every assignment lands in the shared form.                              *)
(***************************************************************************)
RECURSIVE fill_from(_, _, _)
fill_from(user, form, i) ==
  IF i > Len(form.order) THEN [form |-> form, raised |-> None]
  ELSE LET key == form.order[i]
       IN IF form.d[key].formtype \in ignore_types
          THEN fill_from(user, form, i + 1)
          ELSE LET valued == [form EXCEPT !.d[key].value = escape(sanitize_None(user[key]))]
                   key_editable == valued.d[key].editable
                   editable == is_editable(user)
               IN IF IsExc(editable)
                  THEN [form |-> valued, raised |-> editable]
                  ELSE fill_from(user,
                                 [valued EXCEPT !.d[key].editable =
                                    (editable.v \/ valued.d[key].always) /\ key_editable],
                                 i + 1)

fill_form(user, form) == fill_from(user, form, 1)

(***************************************************************************)
(* User.update(update_dict, updatable_dictionary)                          *)
(***************************************************************************)
\* update that takes every verdict of a validation for a go-ahead
update_applies_unchecked(valid_data) == valid_data.action = "update"

\* if valid_data['status'] == "success":
update_applies(valid_data) == valid_data.status = "success"

\* for key, value in update_dict.items(): setattr(self, key, sanitize_Blank(value))
RECURSIVE update_assign_from(_, _, _)
update_assign_from(user, update_dict, i) ==
  IF i > Len(update_dict) THEN user
  ELSE update_assign_from(
         setattr(user, update_dict[i].key, sanitize_Blank(update_dict[i].value)),
         update_dict, i + 1)

update_assign(user, update_dict) == update_assign_from(user, update_dict, 1)

\* an except branch that attaches the error and leaves the status alone
update_except_keeps_status(valid_data, e) ==
  [k \in DOMAIN valid_data \cup {"exception"} |->
     CASE k = "exception" -> e
       [] k = "reason" -> "Database constraint violation."
       [] OTHER -> valid_data[k]]

\* the except branch: the verdict is marked failed and carries the error
update_except(valid_data, e) ==
  [k \in DOMAIN valid_data \cup {"exception"} |->
     CASE k = "status" -> "fail"
       [] k = "exception" -> e
       [] k = "reason" -> "Database constraint violation."
       [] OTHER -> valid_data[k]]

\* db.session.commit() of the object of row uid: the rows after it, or the
\* IntegrityError of a violated unique constraint
commit(rows, uid, obj) ==
  LET rows1 == [u \in DOMAIN rows \cup {uid} |-> IF u = uid THEN row_of(obj) ELSE rows[u]]
  IN IF unique(rows1) THEN [rows |-> rows1, raised |-> None]
     ELSE [rows |-> rows, raised |-> Exc("IntegrityError")]

\* User.update from its call to the return of its first commit: the rows
\* after it, and either the verdict it returns (pc returned) or the verdict
\* it holds while it goes on to user_updated (pc committed)
update(rows, uid, update_dict, form) ==
  LET user == rows[uid]
      valid_data == validate(user, update_dict, form)
  IN IF update_applies(valid_data)
     THEN LET obj == update_assign(user, update_dict)
              done == commit(rows, uid, obj)
          IN IF done.raised # None
             THEN \* except: rollback, the store keeps its rows
                  [rows |-> rows, pc |-> "returned",
                   ret |-> update_except(valid_data, done.raised),
                   assigned |-> keys_of(update_dict)]
             ELSE [rows |-> done.rows, pc |-> "committed", ret |-> valid_data,
                   assigned |-> keys_of(update_dict)]
     ELSE [rows |-> rows, pc |-> "returned", ret |-> valid_data, assigned |-> <<>>]

\* User.user_updated() to the return of its commit.  The first commit has
\* expired the object, so the one attribute this transaction writes is the
\* stamp; the other columns of the row are those the store holds now.
user_updated(rows, uid, clock) ==
  commit(rows, uid, setattr(rows[uid], "user_last_updated_at", Time(clock)))

\* the rest of the call: the update callbacks in order, the k-th raising
\* (k = 0: none), then the verdict, or the except branch for the error
update_return(valid_data, callbacks, k) ==
  LET ran == run_callbacks(callbacks, k)
  IN [called |-> ran.called,
      ret |-> IF ran.raised # None THEN update_except(valid_data, ran.raised)
              ELSE valid_data]

(***************************************************************************)
(* User.admin_update(update_dict)                                          *)
(***************************************************************************)
\* for key, value in update_dict.items(): setattr(self, key, value)
RECURSIVE admin_assign_from(_, _, _)
admin_assign_from(user, update_dict, i) ==
  IF i > Len(update_dict) THEN user
  ELSE admin_assign_from(setattr(user, update_dict[i].key, update_dict[i].value),
                         update_dict, i + 1)

admin_update(rows, uid, update_dict) ==
  LET obj == admin_assign_from(rows[uid], update_dict, 1)
      done == commit(rows, uid, obj)
  IN IF done.raised # None
     THEN \* nothing catches the error; the request ends and its session is dropped
          [rows |-> rows, ret |-> None, raised |-> done.raised]
     ELSE [rows |-> done.rows,
           ret |-> [action |-> "admin_update", status |-> "success"],
           raised |-> None]

(***************************************************************************)
(* HackerUser.set_resume_location(resume_location)                         *)
(***************************************************************************)
set_resume_location(rows, uid, resume_location) ==
  commit(rows, uid, setattr(rows[uid], "resume_location", resume_location))

(***************************************************************************)
(* HackerUser.update_or_create(user_dict)                                  *)
(***************************************************************************)
\* HackerUser.query.filter_by(<column>=value).first(); the inputs are never
\* None, and a unique column matches at most one row
query_first(rows, column, value) ==
  LET found == {u \in DOMAIN rows : rows[u][column] = value}
  IN IF found = {} THEN 0 ELSE CHOOSE u \in found : \A w \in found : u <= w

\* a lookup chain that asks for the email first
lookup_email_first(n) ==
  IF n = 1 THEN [column |-> "email", key |-> "email"]
  ELSE [column |-> "github_id", key |-> "login"]

\* the n-th lookup of update_or_create: the column it filters by and the key
\* of user_dict whose value it looks for; github_id first, then email
lookup(n) ==
  IF n = 1 THEN [column |-> "github_id", key |-> "login"]
  ELSE [column |-> "email", key |-> "email"]

\* the row the n-th lookup finds in the store as it is now; 0 when none
query(rows, user_dict, n) ==
  query_first(rows, lookup(n).column, user_dict[lookup(n).key])

\* if key in user.mlh_settable_keys
settable(key) == key \in mlh_settable_keys

\* for key, value in user_dict.items(): if settable: setattr(user, key, value)
seed(obj, user_dict) ==
  LET keys == {key \in DOMAIN user_dict : settable(key)}
  IN [a \in DOMAIN obj \cup keys |-> IF a \in keys THEN user_dict[a] ELSE obj[a]]

\* the two assignments that follow the loop
seed_fixed(obj) ==
  setattr(setattr(obj, "mlh_id", Str(<<"c", "k", "o">>)),
          "first_name", Str(<<"C", "h", "r", "i", "s", "t", "i", "n", "e">>))

\* the else branch to the return of its commit: construct, add, seed, commit
\* (its flush gives the row its user_id).  Nothing catches a refused commit.
create(rows, user_dict, clock) ==
  LET uid == Cardinality(DOMAIN rows) + 1
      seeded == seed_fixed(seed(HackerUser(user_dict["email"], clock), user_dict))
      obj == setattr(seeded, "user_id", Num(uid))
      done == commit(rows, uid, obj)
  IN IF done.raised # None
     THEN [rows |-> rows, uid |-> 0, obj |-> None, raised |-> done.raised]
     ELSE [rows |-> done.rows, uid |-> uid, obj |-> obj, raised |-> None]

\* the commit has expired the object: a column read from it afterwards is
\* read from the store, a plain attribute is the one set on it
refresh(obj, row) ==
  [a \in DOMAIN obj |-> IF a \in Columns THEN row[a] ELSE obj[a]]

\* the rest of the call: user.user_created(), the k-th create callback raising
\* (k = 0: none), then return user
user_created(obj, row, callbacks, k) ==
  LET ran == run_callbacks(callbacks, k)
  IN [called |-> ran.called, raised |-> ran.raised,
      ret |-> IF ran.raised # None THEN None ELSE refresh(obj, row)]

(***************************************************************************)
(* The operations as actions.                                              *)
(***************************************************************************)
\* the reads of the clock that the updates under way have yet to make
pending == Cardinality({u \in UserIds : req[u].pc = "committed"})

\* update is called and runs to the return of its first commit, or to its
\* return if it gets no further
Update(uid, update_dict) ==
  /\ uid \in DOMAIN db
  /\ req[uid] = idle
  /\ reads + pending < MaxClock
  /\ LET r == update(db, uid, update_dict, hacker_form)
     IN /\ db' = r.rows
        /\ req' = [req EXCEPT ![uid] =
                     IF r.pc = "committed"
                     THEN [pc |-> "committed", arg |-> update_dict, valid_data |-> r.ret]
                     ELSE idle]
        /\ last' = Call("update", uid, update_dict,
                        IF r.pc = "committed" THEN None ELSE r.ret, None, <<>>, r.assigned)
  /\ UNCHANGED <<hacker_form, create_callbacks, update_callbacks, now, reads, res>>

\* the update under way runs user_updated to the return of its commit
UserUpdated(uid) ==
  /\ req[uid].pc = "committed"
  /\ LET done == user_updated(db, uid, now)
     IN /\ db' = done.rows
        /\ now' = now + 1
        /\ reads' = reads + 1
        /\ req' = [req EXCEPT ![uid] =
                     IF done.raised # None THEN idle ELSE [req[uid] EXCEPT !.pc = "stamped"]]
        /\ last' = Call("update", uid, req[uid].arg,
                        IF done.raised # None
                        THEN update_except(req[uid].valid_data, done.raised) ELSE None,
                        None, <<>>, keys_of(req[uid].arg))
  /\ UNCHANGED <<hacker_form, create_callbacks, update_callbacks, res>>

\* the update under way calls the update callbacks and returns
UpdateReturn(uid, k) ==
  /\ req[uid].pc = "stamped"
  /\ LET r == update_return(req[uid].valid_data, update_callbacks, k)
     IN last' = Call("update", uid, req[uid].arg, r.ret, None, r.called,
                     keys_of(req[uid].arg))
  /\ req' = [req EXCEPT ![uid] = idle]
  /\ UNCHANGED <<db, hacker_form, create_callbacks, update_callbacks, now, reads, res>>

AdminUpdate(uid, update_dict) ==
  /\ uid \in DOMAIN db
  /\ LET r == admin_update(db, uid, update_dict)
     IN /\ db' = r.rows
        /\ last' = Call("admin_update", uid, update_dict, r.ret, r.raised, <<>>,
                        keys_of(update_dict))
  /\ UNCHANGED <<hacker_form, create_callbacks, update_callbacks, now, reads, req, res>>

SetResumeLocation(uid, resume_location) ==
  /\ uid \in DOMAIN db
  /\ LET done == set_resume_location(db, uid, resume_location)
     IN /\ db' = done.rows
        /\ last' = Call("set_resume_location", uid, resume_location, None, done.raised,
                        <<>>, <<"resume_location">>)
  /\ UNCHANGED <<hacker_form, create_callbacks, update_callbacks, now, reads, req, res>>

\* a lookup of resolver t has returned: the record it found is returned, or
\* the call goes on from position pc
looked_up(t, user_dict, found, pc) ==
  /\ res' = [res EXCEPT ![t] =
               IF found # 0 THEN idle ELSE [pc |-> pc, arg |-> user_dict]]
  /\ last' = Call("update_or_create", found, user_dict,
                  IF found # 0 THEN db[found] ELSE None, None, <<>>, <<>>)
  /\ UNCHANGED <<db, hacker_form, create_callbacks, update_callbacks, now, reads, req>>

\* update_or_create is called and runs to the return of its lookup by
\* github_id, or to its return if that finds the record
UpdateOrCreate(t, user_dict) ==
  /\ res[t] = idle
  /\ looked_up(t, user_dict, query(db, user_dict, 1), "by_github_id")

\* the call under way runs to the return of its lookup by email, or to its
\* return if that finds the record
SelectByEmail(t) ==
  /\ res[t].pc = "by_github_id"
  /\ looked_up(t, res[t].arg, query(db, res[t].arg, 2), "by_email")

\* the call under way constructs the record and runs to the return of its
\* commit, which the error of a refused commit leaves instead
Create(t) ==
  /\ res[t].pc = "by_email"
  /\ LET r == create(db, res[t].arg, now)
     IN /\ db' = r.rows
        /\ res' = [res EXCEPT ![t] =
                     IF r.raised # None THEN idle
                     ELSE [pc |-> "committed", arg |-> res[t].arg, uid |-> r.uid,
                           obj |-> r.obj]]
        /\ last' = Call("update_or_create", r.uid, res[t].arg, None, r.raised, <<>>, <<>>)
  /\ now' = now + constructor_reads
  /\ UNCHANGED <<hacker_form, create_callbacks, update_callbacks, reads, req>>

\* the call under way calls the create callbacks and returns the record
UserCreated(t, k) ==
  /\ res[t].pc = "committed"
  /\ LET r == user_created(res[t].obj, db[res[t].uid], create_callbacks, k)
     IN last' = Call("update_or_create", res[t].uid, res[t].arg, r.ret, r.raised,
                     r.called, <<>>)
  /\ res' = [res EXCEPT ![t] = idle]
  /\ UNCHANGED <<db, hacker_form, create_callbacks, update_callbacks, now, reads, req>>

FillForm(uid) ==
  /\ uid \in DOMAIN db
  /\ LET r == fill_form(db[uid], hacker_form)
     IN /\ hacker_form' = r.form
        /\ last' = Call("fill_form", uid, None,
                        IF r.raised = None THEN r.form ELSE None, r.raised, <<>>, <<>>)
  /\ UNCHANGED <<db, create_callbacks, update_callbacks, now, reads, req, res>>

\* User.register_create_callback(callback)
RegisterCreateCallback ==
  /\ Len(create_callbacks) < MaxHooks
  /\ create_callbacks' = Append(create_callbacks, Len(create_callbacks) + 1)
  /\ last' = Call("register_create_callback", 0, None, None, None, <<>>, <<>>)
  /\ UNCHANGED <<db, hacker_form, update_callbacks, now, reads, req, res>>

\* User.register_update_callback(callback)
RegisterUpdateCallback ==
  /\ Len(update_callbacks) < MaxHooks
  /\ update_callbacks' = Append(update_callbacks, Len(update_callbacks) + 1)
  /\ last' = Call("register_update_callback", 0, None, None, None, <<>>, <<>>)
  /\ UNCHANGED <<db, hacker_form, create_callbacks, now, reads, req, res>>

\* the whole system
Next ==
  \/ \E uid \in UserIds, d \in UpdateDicts : Update(uid, d)
  \/ \E uid \in UserIds : UserUpdated(uid)
  \/ \E uid \in UserIds, k \in 0..Len(update_callbacks) : UpdateReturn(uid, k)
  \/ \E uid \in UserIds, d \in AdminDicts : AdminUpdate(uid, d)
  \/ \E uid \in UserIds, l \in ResumeLocations : SetResumeLocation(uid, l)
  \/ \E t \in Resolvers, d \in UserDicts : UpdateOrCreate(t, d)
  \/ \E t \in Resolvers : SelectByEmail(t)
  \/ \E t \in Resolvers : Create(t)
  \/ \E t \in Resolvers, k \in 0..Len(create_callbacks) : UserCreated(t, k)
  \/ \E uid \in UserIds : FillForm(uid)
  \/ RegisterCreateCallback
  \/ RegisterUpdateCallback

Spec == Init /\ [][Next]_vars

(***************************************************************************)
(* The system by component.  Each specification starts from the same Init  *)
(* and keeps the operations one component's properties are about, with     *)
(* the other operations limited to the calls that set its records up.      *)
(***************************************************************************)
\* self-service updates of the first record the partner created, which the
\* administrator may lock at any point of an update; the second record holds
\* the other email
NextUpdate ==
  \/ \E t \in SignIns, d \in PlainUserDicts : UpdateOrCreate(t, d)
  \/ \E t \in SignIns : SelectByEmail(t)
  \/ \E t \in SignIns : Create(t)
  \/ \E t \in SignIns : UserCreated(t, 0)
  \/ \E uid \in Applicants, d \in LockDicts : AdminUpdate(uid, d)
  \/ \E uid \in Applicants, d \in UpdateDicts : Update(uid, d)
  \/ \E uid \in Applicants : UserUpdated(uid)
  \/ \E uid \in Applicants, k \in 0..Len(update_callbacks) : UpdateReturn(uid, k)
  \/ RegisterUpdateCallback

SpecUpdate == Init /\ [][NextUpdate]_vars

\* the resolver, over records whose github_id the administrator may have set
NextResolve ==
  \/ \E t \in Resolvers, d \in SentDicts : UpdateOrCreate(t, d)
  \/ \E t \in Resolvers : SelectByEmail(t)
  \/ \E t \in Resolvers : Create(t)
  \/ \E t \in Resolvers, k \in 0..Len(create_callbacks) : UserCreated(t, k)
  \/ \E uid \in UserIds, d \in GithubDicts : AdminUpdate(uid, d)
  \/ RegisterCreateCallback

SpecResolve == Init /\ [][NextResolve]_vars

\* the administrator's path
NextAdmin ==
  \/ \E t \in SignIns, d \in PlainUserDicts : UpdateOrCreate(t, d)
  \/ \E t \in SignIns : SelectByEmail(t)
  \/ \E t \in SignIns : Create(t)
  \/ \E t \in SignIns : UserCreated(t, 0)
  \/ \E uid \in UserIds, d \in OneKeyDicts : AdminUpdate(uid, d)
  \/ \E uid \in UserIds, l \in ResumeLocations : SetResumeLocation(uid, l)

SpecAdmin == Init /\ [][NextAdmin]_vars

\* the read side
NextFill ==
  \/ \E t \in SignIns, d \in PlainUserDicts : UpdateOrCreate(t, d)
  \/ \E t \in SignIns : SelectByEmail(t)
  \/ \E t \in SignIns : Create(t)
  \/ \E t \in SignIns : UserCreated(t, 0)
  \/ \E uid \in UserIds, d \in StatusDicts : AdminUpdate(uid, d)
  \/ \E uid \in Applicants, d \in ShownDicts : Update(uid, d)
  \/ \E uid \in Applicants : UserUpdated(uid)
  \/ \E uid \in Applicants : UpdateReturn(uid, 0)
  \/ \E uid \in UserIds : FillForm(uid)

SpecFill == Init /\ [][NextFill]_vars

(***************************************************************************)
(* Properties.                                                             *)
(***************************************************************************)
\* entry i of payload d names a field of the form that validation rejects for
\* this record: a field it may not edit, or a value its pattern refuses
rejected(user, d, i, form) ==
  /\ d[i].key \in DOMAIN form.d
  /\ form.d[d[i].key].formtype \notin ignore_types
  /\ \/ ~effective_editable(user, form.d[d[i].key])
     \/ /\ form.d[d[i].key].pattern # None
        /\ ~re_match(form.d[d[i].key].pattern, d[i].value)

\* the last step ended an update, which returned a verdict with this status
returned(status) ==
  last.op = "update" /\ last.raised = None /\ last.ret # None /\ last.ret.status = status

\* this step is the first of an update: its call, validation and first commit
called(r, l) == l.op = "update" /\ r[l.uid] = idle

\* C1: all-or-nothing.  An update called with a payload that holds at least
\* one field validation rejects returns at once with status fail: it assigns no
\* field, commits nothing (every row, last_updated_at included, is as before),
\* goes on to no later step and calls no update callback, whatever the other
\* entries of the payload are.
C1_AllOrNothing ==
  [][(called(req, last')
      /\ \E i \in DOMAIN last'.arg : rejected(db[last'.uid], last'.arg, i, hacker_form))
     => /\ last'.raised = None
        /\ last'.ret # None
        /\ last'.ret.status = "fail"
        /\ last'.assigned = <<>>
        /\ last'.hooks = <<>>
        /\ db' = db
        /\ now' = now
        /\ req' = req]_vars

\* C1 happens: with callbacks registered, an update of two entries failed, one
\* entry rejected and the other one acceptable on its own.
C1_Witness ==
  /\ returned("fail")
  /\ update_callbacks # <<>>
  /\ Len(last.arg) = 2
  /\ \E i, j \in DOMAIN last.arg :
       /\ rejected(db[last.uid], last.arg, i, hacker_form)
       /\ last.arg[j].key \in DOMAIN hacker_form.d
       /\ ~rejected(db[last.uid], last.arg, j, hacker_form)

\* the payload sets the email of the record to the email of another row
takes_email(rows, uid, d) ==
  \E i \in DOMAIN d : \E u \in DOMAIN rows \ {uid} :
    d[i].key = "email" /\ d[i].value = rows[u]["email"]

\* this step calls update with a payload that passes validation and whose
\* commit the store refuses (the email is taken)
commit_refused ==
  /\ called(req, last')
  /\ takes_email(db, last'.uid, last'.arg)
  /\ \A i \in DOMAIN last'.arg : ~rejected(db[last'.uid], last'.arg, i, hacker_form)

\* this step returns the verdict with status fail, this reason and the
\* store's error attached, and leaves the store as it was: no row changed,
\* last_updated_at not refreshed, no update callback called
fails_with(reason) ==
  /\ last'.raised = None
  /\ last'.ret # None
  /\ last'.ret.status = "fail"
  /\ last'.ret.reason = reason
  /\ last'.ret.exception = Exc("IntegrityError")
  /\ last'.hooks = <<>>
  /\ db' = db
  /\ now' = now
  /\ req' = req

\* C3, as the program has it: commit failure.  An update that passes
\* validation and whose commit the store refuses raises nothing; it returns the
\* verdict with status fail, reason "Database constraint violation." and the
\* store's error attached, and the store is as before the call: no row
\* changed, last_updated_at not refreshed, no update callback called.
C3_CommitFailure ==
  [][commit_refused => fails_with("Database constraint violation.")]_vars

\* C3, as stated: the same, with the verdict's reason being "persistence
\* constraint violation".
C3_CommitFailureAsStated ==
  [][commit_refused => fails_with("persistence constraint violation")]_vars

\* C3 happens: with callbacks registered, an update that took another row's
\* email came back failed with the store's error.
C3_Witness ==
  /\ returned("fail")
  /\ update_callbacks # <<>>
  /\ takes_email(db, last.uid, last.arg)
  /\ "exception" \in DOMAIN last.ret
  /\ last.ret.exception = Exc("IntegrityError")

\* an update callback raised during the last call: its error left update, or
\* update caught it and attached it to the verdict
hook_raised ==
  /\ last.op = "update"
  /\ \/ last.raised = Exc("HookError")
     \/ /\ last.ret # None
        /\ "exception" \in DOMAIN last.ret
        /\ last.ret.exception = Exc("HookError")

\* C4: hook failure.  When an update callback raises after the commit, the
\* error leaves update to its caller and no verdict is returned; the committed
\* values and the refreshed last_updated_at stay in the store, and no callback
\* registered after the failing one is called.
C4_HookErrorPropagates ==
  hook_raised
  => /\ last.raised = Exc("HookError")
     /\ last.ret = None
     /\ db[last.uid]["user_last_updated_at"] # None
     /\ Len(last.hooks) <= Len(update_callbacks)

\* C8: unknown payload keys.  A key of the payload that is no field of the
\* form does not make update fail and is not applied: when an update passes
\* validation and commits its payload, every column outside the form has the
\* value it had before.
C8_UnknownKeysIgnored ==
  [][(called(req, last') /\ req'[last'.uid].pc = "committed")
     => \A c \in Columns \ DOMAIN hacker_form.d :
          db'[last'.uid][c] = db[last'.uid][c]]_vars

\* a string that is empty or holds only whitespace
blank(value) ==
  value.ty = "str" /\ \A i \in 1..Len(value.v) : value.v[i] \in {" ", "\t", "\n"}

\* the last step committed the payload of an update that is still under way
committed == last.op = "update" /\ req[last.uid].pc = "committed"

\* C10: blank round trip.  When an update has passed validation and committed
\* its payload, every field of the form submitted as an empty or
\* whitespace-only string, of any length, is NULL in the store.
C10_BlankStoredAsNull ==
  committed
  => \A i \in DOMAIN last.arg :
       (last.arg[i].key \in DOMAIN hacker_form.d /\ blank(last.arg[i].value))
       => db[last.uid][last.arg[i].key] = None

\* C5: admin_update always succeeds.  For every record and payload the call
\* raises nothing and returns status success, and every key of the payload is
\* committed with the value given.
C5_AdminAlwaysSucceeds ==
  last.op = "admin_update"
  => /\ last.raised = None
     /\ last.ret.status = "success"
     /\ \A i \in DOMAIN last.arg : db[last.uid][last.arg[i].key] = last.arg[i].value

\* the rows whose github_id is the login of the identity, and those whose
\* email is its email
by_github_id(rows, user_dict) ==
  {u \in DOMAIN rows : rows[u]["github_id"] = user_dict["login"]}
by_email(rows, user_dict) ==
  {u \in DOMAIN rows : rows[u]["email"] = user_dict["email"]}

\* this step is the first of an update_or_create: its call and first lookup
first_lookup ==
  /\ last'.op = "update_or_create"
  /\ \/ res' = res
     \/ \E t \in Resolvers : res[t] = idle /\ res'[t] # idle

\* this step is the second lookup of the update_or_create of resolver t
second_lookup(t) == res[t].pc = "by_github_id" /\ res'[t] # res[t]

\* this step returns row uid as the store holds it and does nothing else
returns_row(uid) ==
  /\ last'.raised = None
  /\ last'.uid = uid
  /\ last'.ret = db[uid]
  /\ last'.hooks = <<>>
  /\ db' = db
  /\ now' = now
  /\ \A t \in Resolvers : res'[t] = idle \/ res'[t] = res[t]

\* C6: resolver on an existing identity.  update_or_create looks up by
\* github_id first: when a row has the github_id of the identity the call
\* returns that row at once; only when none has, it looks up by email, and when
\* a row has the email of the identity it returns that row.  Either way the row
\* is returned as it is stored, no row is created or changed, no create
\* callback is called and the call is over.
C6_ExistingIdentity ==
  [][/\ (first_lookup /\ by_github_id(db, last'.arg) # {})
        => \E u \in by_github_id(db, last'.arg) : returns_row(u) /\ res' = res
     /\ \A t \in Resolvers :
          (second_lookup(t) /\ by_email(db, res[t].arg) # {})
          => \E u \in by_email(db, res[t].arg) :
               returns_row(u) /\ res'[t] = idle /\ last'.arg = res[t].arg]_vars

\* C6 happens: with a create callback registered, an identity whose login
\* names one row and whose email names another was resolved to the first.
C6_Witness ==
  /\ last.op = "update_or_create"
  /\ create_callbacks # <<>>
  /\ \E u1, u2 \in DOMAIN db :
       /\ u1 # u2
       /\ by_github_id(db, last.arg) = {u1}
       /\ by_email(db, last.arg) = {u2}
       /\ last.uid = u1
       /\ last.ret = db[u1]

\* C7: resolver on a new identity.  When update_or_create creates a row, it
\* creates exactly one, and the record it commits holds, for every settable key
\* of the identity, the value the identity gives it, and for every other
\* attribute the default of the constructor (user_id: the id of the new row):
\* keys outside the settable list are dropped, and nothing is set that the
\* identity did not supply.
C7_SeededFromIdentityOnly ==
  [][\A t \in Resolvers :
       (res[t].pc = "by_email" /\ res'[t].pc = "committed")
       => /\ Cardinality(DOMAIN db') = Cardinality(DOMAIN db) + 1
          /\ db'[res'[t].uid] = row_of(res'[t].obj)
          /\ \A a \in DOMAIN res'[t].obj :
               IF a \in DOMAIN res[t].arg /\ a \in mlh_settable_keys
               THEN res'[t].obj[a] = res[t].arg[a]
               ELSE /\ a \in Columns
                    /\ res'[t].obj[a] =
                         IF a = "user_id" THEN Num(res'[t].uid)
                         ELSE HackerUser(res[t].arg["email"], now)[a]]_vars

\* C2: effective editability.  Every fill_form of a record returns the form,
\* and the editable flag it reports for each field is ((can_edit AND the
\* editable_state of the record's status) OR the field's always flag) AND the
\* field's form type is not an ignore type, whatever calls came before.
C2_EffectiveEditability ==
  last.op = "fill_form"
  => /\ last.raised = None
     /\ \A key \in DOMAIN last.ret.d :
          last.ret.d[key].editable = effective_editable(db[last.uid], hacker_form_0.d[key])

\* the status codes tried: every key of the table and three codes outside it
CodesTried == DOMAIN StatusCodes \cup {Str(<<"x">>), Str(<<"z">>), None}

\* C9: status lookup is total.  Every code resolves to one entry of the table,
\* a code that is no key of the table to the unknown entry (code x, editable),
\* and is_editable yields a boolean for every record in the store.
C9_StatusLookupTotal ==
  /\ \A code \in CodesTried :
       /\ \E k \in DOMAIN StatusCodes : get_by_code(code) = StatusCodes[k]
       /\ code \notin DOMAIN StatusCodes
          => get_by_code(code).code = "x" /\ get_by_code(code).editable_state
  /\ \A u \in DOMAIN db : is_editable(db[u]).ty = "bool"

====
